---- MODULE Spec2Model ----
(***************************************************************************)
(* The package helper typacker.py: the export-facade generator             *)
(* generate_export (also the first block of pack.py's __main__) with the   *)
(* walk over src/_impl, the line-oriented annotation parser, the path      *)
(* resolution and the facade writer, and around it generate_readme,        *)
(* copy_files and new_project, over a small file system.                   *)
(*                                                                         *)
(* Text is a sequence of one-character strings, so the regular             *)
(* expressions, strip(), readline() and the path parsing of pathlib are    *)
(* computed character by character.  A path is a sequence of segments,     *)
(* each segment a text; an absolute path starts with its root.             *)
(***************************************************************************)
EXTENDS Naturals, Integers, Sequences, FiniteSets, TLC

(***************************************************************************)
(* Bounds of the model.                                                    *)
(***************************************************************************)
\* runs of generate_export on the same project
MaxRuns == 2
\* lines of an implementation file drawn freely from FirstLines and BodyLines
MaxLines == 3

(***************************************************************************)
(* Characters.                                                             *)
(***************************************************************************)
\* the characters \s and str.strip() take as whitespace (str.isspace): tab,
\* line feed, vertical tab, form feed, carriage return, the separators
\* 0x1c-0x1f, the space, the next line character 0x85 and the no-break space
\* 0xa0, and the spaces beyond Latin-1.  A character beyond Latin-1 cannot be
\* written in a string of TLA+; it is the text that names its code point.
WS ==
    {"\t", "\n", "", "\f", "\r", "", "", "", "", " ", "", " ",
     "U+1680", "U+2000", "U+2001", "U+2002", "U+2003", "U+2004",
     "U+2005", "U+2006", "U+2007", "U+2008", "U+2009", "U+200A",
     "U+2028", "U+2029", "U+202F", "U+205F", "U+3000"}

Lower == {"a","b","c","d","e","f","g","h","i","j","k","l","m","n","o","p","q","r","s","t","u","v","w","x","y","z"}

Upper == {"A","B","C","D","E","F","G","H","I","J","K","L","M","N","O","P","Q","R","S","T","U","V","W","X","Y","Z"}

Digits == {"0","1","2","3","4","5","6","7","8","9"}

\* ident_re_src = [A-Za-z_][A-Za-z0-9\-_]*
IdentStart == Lower \cup Upper \cup {"_"}

IdentRest == IdentStart \cup Digits \cup {"-"}

(***************************************************************************)
(* Text primitives (str methods and the pieces of re.match).               *)
(***************************************************************************)
\* s[i:] for a 1-based i
From(s, i) == SubSeq(s, i, Len(s))

\* whether the literal lit occurs in s at position i
LitAt(s, i, lit) ==
    /\ i + Len(lit) - 1 <= Len(s)
    /\ SubSeq(s, i, i + Len(lit) - 1) = lit

\* str.startswith
StartsWith(s, lit) == LitAt(s, 1, lit)

\* the position after the longest run of characters of cls starting at i
\* (a greedy cls*)
RECURSIVE SkipWhile(_, _, _)
SkipWhile(s, i, cls) ==
    IF i <= Len(s) /\ s[i] \in cls THEN SkipWhile(s, i + 1, cls) ELSE i

RECURSIVE LStrip(_)
LStrip(s) == IF s # <<>> /\ s[1] \in WS THEN LStrip(Tail(s)) ELSE s

RECURSIVE RStrip(_)
RStrip(s) ==
    IF s # <<>> /\ s[Len(s)] \in WS THEN RStrip(SubSeq(s, 1, Len(s) - 1)) ELSE s

\* str.strip()
Strip(s) == RStrip(LStrip(s))

\* the concatenation of a sequence of texts
RECURSIVE Concat(_)
Concat(ss) == IF ss = <<>> THEN <<>> ELSE Head(ss) \o Concat(Tail(ss))

\* the position of the first character c of s at or after i, 0 when none
RECURSIVE Find(_, _, _)
Find(s, c, i) ==
    IF i > Len(s) THEN 0 ELSE IF s[i] = c THEN i ELSE Find(s, c, i + 1)

\* the position of the first line end ("\n" or "\r") of s at or after i, 0
\* when none
RECURSIVE FindEol(_, _)
FindEol(s, i) ==
    IF i > Len(s) THEN 0
    ELSE IF s[i] \in {"\n", "\r"} THEN i ELSE FindEol(s, i + 1)

\* the lines readline() returns one after the other for a file opened in
\* text mode (universal newlines, lines 80 and 144): "\n", "\r\n" and a lone
\* "\r" end a line and are all returned as "\n"; a last line the text does not
\* end is returned without one
RECURSIVE SplitLines(_)
SplitLines(text) ==
    IF text = <<>> THEN <<>>
    ELSE LET n == FindEol(text, 1)
             m == IF n # 0 /\ text[n] = "\r" /\ n < Len(text) /\ text[n + 1] = "\n"
                  THEN n + 1 ELSE n
         IN  IF n = 0 THEN <<text>>
             ELSE <<Append(SubSeq(text, 1, n - 1), "\n")>>
                      \o SplitLines(From(text, m + 1))

\* f.readline() for the k-th call on a file of these lines: "" at end of file
ReadLine(lines, k) == IF k <= Len(lines) THEN lines[k] ELSE <<>>

(***************************************************************************)
(* export_file_re = ^\/\/\s*->\s+                                          *)
(***************************************************************************)
s_slashes == <<"/","/">>

s_arrow == <<"-",">">>

\* match.end() of export_file_re.match(line) as the 1-based position after
\* the match, 0 when the line does not match
export_file_re(line) ==
    IF ~LitAt(line, 1, s_slashes) THEN 0
    ELSE LET a == SkipWhile(line, 3, WS)
         IN  IF ~LitAt(line, a, s_arrow) THEN 0
             ELSE LET b == SkipWhile(line, a + 2, WS)
                  IN  IF b > a + 2 THEN b ELSE 0

(***************************************************************************)
(* public_item_re =                                                        *)
(*   ^#let\s*\/\*\s*pub(?:\s+as\s+(?P<alias>ID))?\s*\*\/\s*(?P<name>ID)    *)
(***************************************************************************)
s_let == <<"#","l","e","t">>

s_open == <<"/","*">>

s_pub == <<"p","u","b">>

s_as == <<"a","s">>

s_close == <<"*","/">>

\* the position after the identifier starting at i, i itself when there is none
IdentEnd(s, i) ==
    IF i <= Len(s) /\ s[i] \in IdentStart THEN SkipWhile(s, i + 1, IdentRest) ELSE i

\* the class PublicItem; alias None is the empty text (an identifier is not empty)
PublicItem(name, alias) == [name |-> name, alias |-> alias]

None == <<>>

NoMatch == [matched |-> FALSE, item |-> PublicItem(<<>>, None)]

\* \s*\*\/\s*(?P<name>ID) from position i, with the alias found before it
PublicItemTail(s, i, alias) ==
    LET c == SkipWhile(s, i, WS)
    IN  IF ~LitAt(s, c, s_close) THEN NoMatch
        ELSE LET n == SkipWhile(s, c + 2, WS)
                 e == IdentEnd(s, n)
             IN  IF e = n THEN NoMatch
                 ELSE [matched |-> TRUE,
                       item |-> PublicItem(SubSeq(s, n, e - 1), alias)]

\* (?:\s+as\s+(?P<alias>ID)) from position i and the rest of the pattern
PublicItemWithAlias(s, i) ==
    LET a == SkipWhile(s, i, WS)
    IN  IF ~(a > i /\ LitAt(s, a, s_as)) THEN NoMatch
        ELSE LET b == SkipWhile(s, a + 2, WS)
                 e == IdentEnd(s, b)
             IN  IF ~(b > a + 2 /\ e > b) THEN NoMatch
                 ELSE PublicItemTail(s, e, SubSeq(s, b, e - 1))

\* public_item_re.match(line): the optional group is tried first, and the
\* pattern without it when that fails
public_item_re(line) ==
    IF ~LitAt(line, 1, s_let) THEN NoMatch
    ELSE LET a == SkipWhile(line, 5, WS)
         IN  IF ~LitAt(line, a, s_open) THEN NoMatch
             ELSE LET b == SkipWhile(line, a + 2, WS)
                  IN  IF ~LitAt(line, b, s_pub) THEN NoMatch
                      ELSE LET aliased == PublicItemWithAlias(line, b + 3)
                           IN  IF aliased.matched THEN aliased
                               ELSE PublicItemTail(line, b + 3, None)

(***************************************************************************)
(* The annotation parser: generate_export's reads of one file.             *)
(***************************************************************************)
s_doc == <<"/","/","/">>

\* the number of the line the doc loop stops at (lines 91-95): readline() is
\* called first, so the loop starts with the file's second line
RECURSIVE DocStop(_, _)
DocStop(lines, k) ==
    IF StartsWith(ReadLine(lines, k), s_doc) THEN DocStop(lines, k + 1) ELSE k

\* the first line the doc loop reads
FirstDocLine == 2

\* module_doc (lines 90-96): the doc lines concatenated, then strip()
ModuleDoc(lines) ==
    Strip(Concat(SubSeq(lines, FirstDocLine, DocStop(lines, FirstDocLine) - 1)))

\* the declaration loop (lines 99-107) entered with line number k in `line`
RECURSIVE ScanItems(_, _)
ScanItems(lines, k) ==
    LET m == public_item_re(ReadLine(lines, k))
        found == IF m.matched THEN <<m.item>> ELSE <<>>
    IN  IF Len(ReadLine(lines, k + 1)) = 0 THEN found
        ELSE found \o ScanItems(lines, k + 1)

\* public_items (lines 98-107)
PublicItems(lines) == ScanItems(lines, DocStop(lines, FirstDocLine))

(***************************************************************************)
(* Paths (pathlib.PurePosixPath).                                          *)
(***************************************************************************)
seg_root == <<"/">>

seg_root2 == <<"/","/">>

seg_w == <<"w">>

seg_pkg == <<"p","k","g">>

seg_src == <<"s","r","c">>

seg_impl == <<"_","i","m","p","l">>

seg_toml == <<"t","y","p","s","t",".","t","o","m","l">>

seg_dotdot == <<".",".">>

seg_dot == <<".">>

s_typ == <<".","t","y","p">>

\* DIR, the directory of the script (lines 13 and 184-186): an absolute
\* path, /w/pkg in this model
project_dir == <<seg_root, seg_w, seg_pkg>>

\* lines 30 and 76-77
src_dir == project_dir \o <<seg_src>>

impl_dir == src_dir \o <<seg_impl>>

\* line 29
toml_file == project_dir \o <<seg_toml>>

IsAbsolute(p) == p # <<>> /\ p[1] \in {seg_root, seg_root2}

\* the names of a path text: split at "/", the empty and "." names dropped,
\* ".." kept (pathlib does not collapse it)
RECURSIVE Segments(_)
Segments(text) ==
    LET n == Find(text, "/", 1)
        seg == IF n = 0 THEN text ELSE SubSeq(text, 1, n - 1)
        this == IF seg = <<>> \/ seg = seg_dot THEN <<>> ELSE <<seg>>
    IN  IF n = 0 THEN this ELSE this \o Segments(From(text, n + 1))

\* Path(text): a text that starts with "/" is absolute; its root is "//"
\* when it starts with exactly two slashes and "/" otherwise
ParsePath(text) ==
    IF ~StartsWith(text, <<"/">>) THEN Segments(text)
    ELSE IF StartsWith(text, seg_root2) /\ ~StartsWith(text, <<"/","/","/">>)
    THEN <<seg_root2>> \o Segments(text)
    ELSE <<seg_root>> \o Segments(text)

\* base / other: an absolute other replaces base
JoinPath(base, other) == IF IsAbsolute(other) THEN other ELSE base \o other

\* Path.parent: the root and the empty path are their own parents
Parent(p) ==
    IF p = <<>> \/ (Len(p) = 1 /\ IsAbsolute(p)) THEN p
    ELSE SubSeq(p, 1, Len(p) - 1)

IsPrefix(a, b) == Len(a) <= Len(b) /\ SubSeq(b, 1, Len(a)) = a

\* Path.relative_to(other) without walk_up, for other a prefix of self
relative_to(self, other) == From(self, Len(other) + 1)

\* the length of the longest prefix of other that self starts with
RECURSIVE CommonLen(_, _, _)
CommonLen(self, other, k) ==
    IF IsPrefix(SubSeq(other, 1, k), self) THEN k ELSE CommonLen(self, other, k - 1)

\* the root of an absolute path, empty for a relative one
Anchor(p) == IF IsAbsolute(p) THEN p[1] ELSE <<>>

\* Path.relative_to(other, walk_up=True): the anchors must agree; other and
\* its parents are tried in turn until one is self or a parent of self; each
\* one passed costs a "..", and one whose name is ".." cannot be walked
\* (ValueError)
relative_to_walk_up(self, other) ==
    LET c == CommonLen(self, other, Len(other))
    IN  IF \/ Anchor(self) # Anchor(other)
           \/ \E q \in (c + 1)..Len(other) : other[q] = seg_dotdot
        THEN [ok |-> FALSE, path |-> <<>>]
        ELSE [ok |-> TRUE,
              path |-> [i \in 1..(Len(other) - c) |-> seg_dotdot] \o From(self, c + 1)]

\* the names of a path joined with "/"
RECURSIVE JoinNames(_)
JoinNames(p) ==
    IF p = <<>> THEN <<>>
    ELSE IF Len(p) = 1 THEN p[1]
    ELSE p[1] \o <<"/">> \o JoinNames(Tail(p))

\* Path.as_posix
as_posix(p) ==
    IF p = <<>> THEN seg_dot
    ELSE IF IsAbsolute(p) THEN p[1] \o JoinNames(Tail(p))
    ELSE JoinNames(p)

(***************************************************************************)
(* The file system: files (path -> text) and dirs (a set of paths), both   *)
(* over absolute paths without "..", all with the root "/".                *)
(***************************************************************************)
\* the directory above d
Up(d) == IF Len(d) <= 1 THEN d ELSE SubSeq(d, 1, Len(d) - 1)

\* the operating system's walk along the names of a path from directory acc:
\* a name is looked up in a directory only (ENOENT where nothing is, ENOTDIR
\* where a file is), ".." leads to the directory above
RECURSIVE Walk(_, _, _, _)
Walk(fs_files, fs_dirs, names, acc) ==
    IF names = <<>> THEN [err |-> "", path |-> acc]
    ELSE IF acc \notin fs_dirs
    THEN [err |-> IF acc \in DOMAIN fs_files THEN "NotADirectoryError"
                  ELSE "FileNotFoundError",
          path |-> acc]
    ELSE Walk(fs_files, fs_dirs, Tail(names),
              IF Head(names) = seg_dotdot THEN Up(acc) ELSE Append(acc, Head(names)))

\* where the operating system finds the absolute path p (the roots "/" and
\* "//" are the same directory); what is named last need not exist
Lookup(fs_files, fs_dirs, p) == Walk(fs_files, fs_dirs, Tail(p), <<seg_root>>)

\* Path.exists, Path.is_dir, Path.is_file
exists(fs_files, fs_dirs, p) ==
    LET r == Lookup(fs_files, fs_dirs, p)
    IN  r.err = "" /\ (r.path \in fs_dirs \/ r.path \in DOMAIN fs_files)

is_dir(fs_files, fs_dirs, p) ==
    LET r == Lookup(fs_files, fs_dirs, p)
    IN  r.err = "" /\ r.path \in fs_dirs

is_file(fs_files, fs_dirs, p) ==
    LET r == Lookup(fs_files, fs_dirs, p)
    IN  r.err = "" /\ r.path \in DOMAIN fs_files

\* os.mkdir(p): the exception it raises ("" when none) and the directories
\* after it
os_mkdir(fs_files, fs_dirs, p) ==
    LET r == Lookup(fs_files, fs_dirs, p)
    IN  IF r.err # "" THEN [err |-> r.err, dirs |-> fs_dirs]
        ELSE IF r.path \in fs_dirs \/ r.path \in DOMAIN fs_files
        THEN [err |-> "FileExistsError", dirs |-> fs_dirs]
        ELSE [err |-> "", dirs |-> fs_dirs \cup {r.path}]

\* Path.mkdir(parents=True, exist_ok=True) (lines 88 and 176): os.mkdir is
\* tried; on FileNotFoundError the parent of the path as written is made
\* first and os.mkdir tried again; any other OSError is passed over when the
\* path is a directory
RECURSIVE mkdir(_, _, _)
mkdir(fs_files, fs_dirs, p) ==
    LET first == os_mkdir(fs_files, fs_dirs, p)
        tolerate(res, ds) ==
            IF res.err = "" THEN res
            ELSE IF is_dir(fs_files, ds, p) THEN [err |-> "", dirs |-> ds]
            ELSE [err |-> res.err, dirs |-> ds]
    IN  IF first.err # "FileNotFoundError" THEN tolerate(first, fs_dirs)
        ELSE IF Parent(p) = p THEN first
        ELSE LET above == mkdir(fs_files, fs_dirs, Parent(p))
                 again == os_mkdir(fs_files, above.dirs, p)
             IN  IF above.err # "" THEN above
                 ELSE IF again.err = "FileNotFoundError" THEN again
                 ELSE tolerate(again, above.dirs)

\* the exception open(p) raises for reading, "" when none
open_r_error(fs_files, fs_dirs, p) ==
    LET r == Lookup(fs_files, fs_dirs, p)
    IN  IF r.err # "" THEN r.err
        ELSE IF r.path \in fs_dirs THEN "IsADirectoryError"
        ELSE IF r.path \notin DOMAIN fs_files THEN "FileNotFoundError"
        ELSE ""

\* the exception open(p, "w") raises, "" when none
open_w_error(fs_files, fs_dirs, p) ==
    LET r == Lookup(fs_files, fs_dirs, p)
    IN  IF r.err # "" THEN r.err
        ELSE IF r.path \in fs_dirs THEN "IsADirectoryError"
        ELSE ""

\* a file opened for appending keeps its content
open_a(old) == old

\* what open(p, "w") leaves of the file's content: it is truncated
open_w(old) == <<>>

\* f.write(s) on a file holding buf
write(buf, s) == buf \o s

EndsWith(s, lit) == Len(lit) <= Len(s) /\ From(s, Len(s) - Len(lit) + 1) = lit

\* os.scandir(d): the files and directories in directory d
scandir(fs_files, fs_dirs, d) ==
    {p \in fs_dirs \cup DOMAIN fs_files : Len(p) = Len(d) + 1 /\ IsPrefix(d, p)}

\* the entries of a directory listing glob("**/*.typ") yields: those named
\* *.typ, files and directories alike
glob_matches(entries) == {p \in entries : EndsWith(p[Len(p)], s_typ)}

\* the entries of a directory listing the walk of "**" descends into
glob_subdirs(fs_dirs, entries) == entries \cap fs_dirs

(***************************************************************************)
(* The facade writer (lines 117-132).                                      *)
(***************************************************************************)
s_import_open == <<"#","i","m","p","o","r","t"," ","\"">>

s_import_close == <<"\"",":"," ","(","\n">>

s_indent == <<" "," ">>

s_as_sep == <<" ","a","s"," ">>

s_comma == <<",","\n">>

s_list_close == <<")","\n","\n">>

s_nlnl == <<"\n","\n">>

s_disclaimer == <<"/","/"," ","T","h","i","s"," ","i","s"," ","a"," ","p","r","o","g","r","a","m","-","g","e","n","e","r","a","t","e","d"," ","f","i","l","e","."," ","D","o"," ","n","o","t"," ","e","d","i","t"," ","i","t"," ","d","i","r","e","c","t","l","y",".","\n">>

\* lines 118-120
write_doc(buf, doc) ==
    IF Len(doc) > 0 THEN write(write(buf, doc), s_nlnl) ELSE buf

\* lines 124-128: the match statement on one PublicItem
write_item(buf, item) ==
    IF item.alias = None
    THEN write(buf, s_indent \o item.name \o s_comma)
    ELSE write(buf, s_indent \o item.name \o s_as_sep \o item.alias \o s_comma)

\* lines 123-128: the loop over public_items
RECURSIVE write_items(_, _)
write_items(buf, items) ==
    IF items = <<>> THEN buf
    ELSE write_items(write_item(buf, Head(items)), Tail(items))

\* the content of the facade after the with block of lines 117-132, for a
\* file that held old
write_facade(old, doc, rel, items) ==
    LET b0 == open_w(old)
        b1 == write_doc(b0, doc)
        b2 == write(b1, s_import_open \o as_posix(rel) \o s_import_close)
        b3 == write_items(b2, items)
        b4 == write(b3, s_list_close)
    IN  write(b4, s_disclaimer)


(***************************************************************************)
(* typst.toml: toml.load for the documents of this model, which are made   *)
(* of blank lines, comments, [table] lines and lines key = "text" or       *)
(* key = digits, with bare names.                                          *)
(***************************************************************************)
s_package == <<"p","a","c","k","a","g","e">>

s_version == <<"v","e","r","s","i","o","n">>

TomlBlank == {" ", "\t"}

RECURSIVE StripOf(_, _)
StripOf(s, cls) ==
    IF s # <<>> /\ s[1] \in cls THEN StripOf(Tail(s), cls)
    ELSE IF s # <<>> /\ s[Len(s)] \in cls THEN StripOf(SubSeq(s, 1, Len(s) - 1), cls)
    ELSE s

toml_bad == [kind |-> "error", key |-> <<>>, value |-> <<>>, str |-> FALSE]

\* a [table] line s with the name inner between its brackets
toml_table(s, inner) ==
    IF /\ s[Len(s)] = "]"
       /\ inner # <<>>
       /\ \A i \in DOMAIN inner : inner[i] \in IdentRest
    THEN [kind |-> "table", key |-> inner, value |-> <<>>, str |-> FALSE]
    ELSE toml_bad

\* the value v of a key: a text between quotes or a number
toml_value(key, v, quoted) ==
    IF /\ Len(v) >= 2
       /\ v[1] = "\""
       /\ v[Len(v)] = "\""
       /\ \A i \in DOMAIN quoted : quoted[i] \notin {"\"", "\\"}
    THEN [kind |-> "pair", key |-> key, value |-> quoted, str |-> TRUE]
    ELSE IF /\ v # <<>>
            /\ \A i \in DOMAIN v : v[i] \in Digits
            /\ (Len(v) = 1 \/ v[1] # "0")
    THEN [kind |-> "pair", key |-> key, value |-> v, str |-> FALSE]
    ELSE toml_bad

\* the text after the sign = at position a of s
toml_after(s, a) == From(s, SkipWhile(s, a + 1, TomlBlank))

\* a line s whose key ends before position e and whose sign = is looked for
\* at position a
toml_pair(s, e, a) ==
    IF e = 1 \/ ~LitAt(s, a, <<"=">>) THEN toml_bad
    ELSE toml_value(SubSeq(s, 1, e - 1), toml_after(s, a),
                    SubSeq(toml_after(s, a), 2, Len(toml_after(s, a)) - 1))

toml_key_end(s) == SkipWhile(s, 1, IdentRest)

\* one line of a document, stripped: a blank line or comment, a table line,
\* a pair of a key and a value, or an error
toml_stripped(s) ==
    IF s = <<>> \/ s[1] = "#"
    THEN [kind |-> "blank", key |-> <<>>, value |-> <<>>, str |-> FALSE]
    ELSE IF s[1] = "[" THEN toml_table(s, SubSeq(s, 2, Len(s) - 1))
    ELSE toml_pair(s, toml_key_end(s), SkipWhile(s, toml_key_end(s), TomlBlank))

toml_line(line) == toml_stripped(StripOf(line, TomlBlank \cup {"\n"}))

\* the lines from the k-th on, read into the tables and pairs found so far;
\* a table or a key named twice is an error
RECURSIVE toml_lines(_, _, _, _, _)
\* the k-th line, read as l
toml_step(lines, k, table, tables, pairs, l) ==
    IF l.kind = "blank"
    THEN toml_lines(lines, k + 1, table, tables, pairs)
    ELSE IF /\ l.kind = "table"
            /\ l.key \notin tables
            /\ ~\E i \in DOMAIN pairs : pairs[i].table = <<>> /\ pairs[i].key = l.key
    THEN toml_lines(lines, k + 1, l.key, tables \cup {l.key}, pairs)
    ELSE IF /\ l.kind = "pair"
            /\ ~\E i \in DOMAIN pairs : pairs[i].table = table /\ pairs[i].key = l.key
    THEN toml_lines(lines, k + 1, table, tables,
                    Append(pairs, [table |-> table, key |-> l.key,
                                   value |-> l.value, str |-> l.str]))
    ELSE [err |-> "TomlDecodeError", tables |-> tables, pairs |-> pairs]

toml_lines(lines, k, table, tables, pairs) ==
    IF k > Len(lines)
    THEN [err |-> "", tables |-> tables, pairs |-> pairs]
    ELSE toml_step(lines, k, table, tables, pairs, toml_line(lines[k]))

\* toml.load(path) of a file with this text
toml_load(text) == toml_lines(SplitLines(text), 1, <<>>, {}, <<>>)

\* frozendict(doc["package"]) (line 70): the pairs of the table package in
\* the order of the file; KeyError without the table.  A plain value named
\* package is taken as a sequence of pairs: the empty text is the empty
\* mapping, any other text has characters where pairs are due (ValueError),
\* and a number is no sequence (TypeError)
package_in(doc) ==
    IF doc.err # "" THEN [err |-> doc.err, info |-> <<>>]
    ELSE IF \E i \in DOMAIN doc.pairs :
                doc.pairs[i].table = <<>> /\ doc.pairs[i].key = s_package
    THEN [err |-> IF \E i \in DOMAIN doc.pairs :
                         /\ doc.pairs[i].table = <<>>
                         /\ doc.pairs[i].key = s_package
                         /\ ~doc.pairs[i].str
                  THEN "TypeError"
                  ELSE IF \E i \in DOMAIN doc.pairs :
                              /\ doc.pairs[i].table = <<>>
                              /\ doc.pairs[i].key = s_package
                              /\ doc.pairs[i].value # <<>>
                  THEN "ValueError"
                  ELSE "",
          info |-> <<>>]
    ELSE IF s_package \notin doc.tables THEN [err |-> "KeyError", info |-> <<>>]
    ELSE [err |-> "",
          info |-> SelectSeq(doc.pairs, LAMBDA q : q.table = s_package)]

package_of(text) == package_in(toml_load(text))

\* get_package_info (lines 67-70) with the cache of lru_cache: a value held
\* in the cache is returned without reading the file; a call that raises
\* leaves the cache as it was
get_package_info(cache, text) ==
    IF cache # <<>> THEN [err |-> "", info |-> cache[1]] ELSE package_of(text)

(***************************************************************************)
(* generate_readme (lines 135-156).                                        *)
(***************************************************************************)
seg_readme_orig == <<"R","E","A","D","M","E",".","o","r","i","g",".","m","d">>

seg_readme == <<"R","E","A","D","M","E",".","m","d">>

s_banner == <<"<","!","-","-"," ","T","h","i","s"," ","i","s"," ","a"," ","p","r","o","g","r","a","m","-","g","e","n","e","r","a","t","e","d"," ","f","i","l","e","."," ","D","o"," ","n","o","t"," ","e","d","i","t"," ","i","t"," ","d","i","r","e","c","t","l","y","."," ","-","-",">","\n","\n">>

\* lines 141-142
readme_orig_file == project_dir \o <<seg_readme_orig>>

readme_file == project_dir \o <<seg_readme>>

\* str.replace(old, new) for a non-empty old: the occurrences of old are
\* replaced from left to right, none overlapping another
RECURSIVE replace(_, _, _)
replace(s, old, new) ==
    IF Len(s) < Len(old) THEN s
    ELSE IF StartsWith(s, old) THEN new \o replace(From(s, Len(old) + 1), old, new)
    ELSE <<s[1]>> \o replace(Tail(s), old, new)

\* lines 151-155: the keys are taken in the order of the mapping; a value
\* that is no str is passed over
RECURSIVE replaced_line(_, _)
replaced_line(line, info) ==
    IF info = <<>> THEN line
    ELSE LET q == Head(info)
             next == IF q.str
                     THEN replace(line, <<"{","{">> \o q.key \o <<"}","}">>, q.value)
                     ELSE line
         IN  replaced_line(next, Tail(info))

\* lines 147-156: what is written to README.md for this template
readme_text(old, orig, info) ==
    LET lines == SplitLines(orig)
    IN  write(write(open_w(old), s_banner),
              Concat([i \in DOMAIN lines |-> replaced_line(lines[i], info)]))

(***************************************************************************)
(* copy_files (lines 159-179).                                             *)
(***************************************************************************)
seg_packed == <<"p","a","c","k","e","d">>

seg_assets == <<"a","s","s","e","t","s">>

seg_license == <<"L","I","C","E","N","S","E",".","t","x","t">>

\* lines 167-173
files_to_copy ==
    <<project_dir \o <<seg_src>>, project_dir \o <<seg_assets>>,
      project_dir \o <<seg_readme>>, project_dir \o <<seg_license>>,
      project_dir \o <<seg_toml>>>>

\* shutil.rmtree(d) for a directory d: what is left of the files and of the
\* directories
rmtree_files(fs_files, d) ==
    [p \in {q \in DOMAIN fs_files : ~IsPrefix(d, q)} |-> fs_files[p]]

rmtree_dirs(fs_dirs, d) == {q \in fs_dirs : ~IsPrefix(d, q)}

\* Path.copy_into(target_dir) for a file or a directory at from: it and all
\* below it are copied to target_dir / from.name
copy_into_files(fs_files, from, to) ==
    LET moved == {q \in DOMAIN fs_files : IsPrefix(from, q)}
        place(q) == to \o From(q, Len(from))
    IN  [p \in DOMAIN fs_files \cup {place(q) : q \in moved} |->
            IF \E q \in moved : place(q) = p
            THEN fs_files[CHOOSE q \in moved : place(q) = p]
            ELSE fs_files[p]]

copy_into_dirs(fs_dirs, from, to) ==
    fs_dirs \cup {to \o From(q, Len(from)) : q \in {d \in fs_dirs : IsPrefix(from, d)}}

(***************************************************************************)
(* new_project (lines 41-64).                                              *)
(***************************************************************************)
seg_lib == <<"l","i","b",".","t","y","p">>

seg_gitignore == <<".","g","i","t","i","g","n","o","r","e">>

\* line 55
s_readme_orig == <<"#"," ","T","y","p","s","t"," ","p","a","c","k","a","g","e",":"," ","{","{","n","a","m","e","}","}","\n">>

\* lines 53-55: the files written, in this order
new_project_files ==
    <<[path |-> src_dir \o <<seg_lib>>, text |-> <<>>],
      [path |-> project_dir \o <<seg_gitignore>>, text |-> <<>>],
      [path |-> readme_orig_file, text |-> s_readme_orig]>>

(***************************************************************************)
(* The inputs: lines, files and paths of the projects the model runs on.   *)
(***************************************************************************)
LnRedirect == <<"/","/"," ","-",">"," ","s","h","o","r","t","c","u","t","s",".","t","y","p","\n">>

LnRedirectDeep == <<"/","/"," ","-",">","\t","U+2003","p","u","b","/","a","p","i","/","x",".","t","y","p","\f"," ","\r","\n">>

LnRedirectImpl == <<"/","/"," ","-",">"," ","_","i","m","p","l","/","l",".","t","y","p","\n">>

LnRedirectSub == <<"/","/"," ","-",">"," ","_","i","m","p","l","/","s","u","b","/","n",".","t","y","p","\n">>

LnRedirectDirTyp == <<"/","/"," ","-",">"," ","_","i","m","p","l","/","d",".","t","y","p","/","n",".","t","y","p","\n">>

LnRedirectEmpty == <<"/","/"," ","-",">","\n">>

LnRedirectUp == <<"/","/"," ","-",">"," ",".",".","/",".",".","/","u","p","/","x",".","t","y","p","\n">>

LnRedirectAbs == <<"/","/"," ","-",">"," ","/","a","b","s","/","x",".","t","y","p","\n">>

LnRedirectOver == <<"/","/"," ","-",">"," ","s","h","o","r","t","c","u","t","s",".","t","y","p","/",".",".","/","b","/","x",".","t","y","p","\n">>

LnRedirectUnder == <<"/","/"," ","-",">"," ","s","h","o","r","t","c","u","t","s",".","t","y","p","/","x",".","t","y","p","\n">>

LnArrowNoSpace == <<"/","/"," ","-",">","x",".","t","y","p","\n">>

LnDoc == <<"/","/","/"," ","A","d","d","s"," ","n","u","m","b","e","r","s",".","\n">>

LnPub == <<"#","l","e","t"," ","/","*"," ","p","u","b"," ","*","/"," ","a","d","d","\n">>

LnPubAs == <<"#","l","e","t"," ","/","*"," ","p","u","b"," ","a","s"," ","p","l","u","s"," ","*","/"," ","a","d","d","2","\n">>

LnPlain == <<"#","l","e","t"," ","h","e","l","p","e","r"," ","="," ","1","\n">>

StaleText == <<"s","t","a","l","e","\n">>

CrlfText == <<"/","/"," ","-",">"," ","c",".","t","y","p","\r","\n","/","/","/"," ","d","\r","\n","#","l","e","t"," ","/","*"," ","p","u","b"," ","*","/"," ","a","d","d","\r","\n">>

MacText == <<"/","/","/"," ","d","\r","/","/","/"," ","e","\r","#","l","e","t"," ","/","*"," ","p","u","b"," ","*","/"," ","a","d","d","\r">>

TomlText == <<"[","p","a","c","k","a","g","e","]","\n","n","a","m","e"," ","="," ","\"","g","e","o","m","\"","\n","v","e","r","s","i","o","n"," ","="," ","\"","1",".","2",".","0","\"","\n","r","e","v","i","s","i","o","n"," ","="," ","3","\n">>

TomlNoVersion == <<"[","p","a","c","k","a","g","e","]","\n","n","a","m","e"," ","="," ","\"","g","e","o","m","\"","\n">>

TomlNumber == <<"[","p","a","c","k","a","g","e","]","\n","v","e","r","s","i","o","n"," ","="," ","3","\n">>

TomlNoPackage == <<"#"," ","n","o","n","e","\n","[","t","o","o","l","]","\n">>

TomlBad == <<"[","p","a","c","k","a","g","e","\n">>

TomlPlainEmpty == <<"p","a","c","k","a","g","e"," ","="," ","\"","\"","\n">>

TomlPlainText == <<"p","a","c","k","a","g","e"," ","="," ","\"","g","e","o","m","\"","\n">>

TomlPlainNumber == <<"p","a","c","k","a","g","e"," ","="," ","3","\n">>

TemplateText == <<"P","a","c","k","a","g","e"," ","{","{","n","a","m","e","}","}"," ","v","{","{","v","e","r","s","i","o","n","}","}","\r","\n","{","{","r","e","v","i","s","i","o","n","}","}"," ","{","{","n","a","m","e","}","}","\n">>

LicenseText == <<"M","I","T","\n">>

LogoText == <<"<","s","v","g","/",">","\n">>

\* the first lines of the one-file projects
FirstLines ==
    {LnRedirect, LnRedirectDeep, LnRedirectEmpty, LnRedirectUp, LnRedirectAbs,
     LnRedirectOver, LnRedirectUnder, LnArrowNoSpace, LnDoc, LnPub, LnPubAs,
     LnPlain}

\* the lines that follow the first
BodyLines == {LnRedirect, LnDoc, LnPub, LnPubAs, LnPlain}

\* the texts of at most n lines of BodyLines
RECURSIVE Bodies(_)
Bodies(n) ==
    IF n = 0 THEN {<<>>}
    ELSE LET shorter == Bodies(n - 1)
         IN  shorter \cup {l \o t : l \in BodyLines, t \in shorter}

\* the texts of at most n lines: a first line and a body
Texts(n) ==
    IF n = 0 THEN {<<>>}
    ELSE {<<>>} \cup {l \o t : l \in FirstLines, t \in Bodies(n - 1)}

\* a file with a redirect, a doc block and two declarations
DocumentedText == LnRedirect \o LnDoc \o LnDoc \o LnPub \o LnPubAs

\* src/_impl/math/add.typ and src/_impl/deep/nested/file.typ
MathPath == impl_dir \o <<<<"m","a","t","h">>, <<"a","d","d",".","t","y","p">>>>

ParsePaths ==
    {MathPath,
     impl_dir \o <<<<"d","e","e","p">>, <<"n","e","s","t","e","d">>,
                   <<"f","i","l","e",".","t","y","p">>>>}

\* whole files for the projects of several files: one that redirects to
\* src/shortcuts.typ, three that redirect into src/_impl (onto a file, into a
\* directory, into a directory named like a file), one without public items
WalkTexts ==
    {LnRedirect \o LnPub, LnRedirectImpl \o LnPub, LnRedirectSub \o LnPub,
     LnRedirectDirTyp \o LnPub, LnRedirect \o LnPlain}

\* src/_impl/w.typ, src/_impl/l.typ, src/_impl/sub/z.typ
WalkPaths ==
    {impl_dir \o <<<<"w",".","t","y","p">>>>,
     impl_dir \o <<<<"l",".","t","y","p">>>>,
     impl_dir \o <<<<"s","u","b">>, <<"z",".","t","y","p">>>>}

\* a tree two deep with two directories side by side, each with a
\* directory of its own: src/_impl/a/x.typ, src/_impl/a/b/y.typ,
\* src/_impl/c/z.typ, src/_impl/c/d/w.typ
TreePaths ==
    {impl_dir \o <<<<"a">>, <<"x",".","t","y","p">>>>,
     impl_dir \o <<<<"a">>, <<"b">>, <<"y",".","t","y","p">>>>,
     impl_dir \o <<<<"c">>, <<"z",".","t","y","p">>>>,
     impl_dir \o <<<<"c">>, <<"d">>, <<"w",".","t","y","p">>>>}

\* the files of the tree: mirrored, or redirected to src/shortcuts.typ
TreeTexts == {LnPlain \o LnPub, LnRedirect \o LnPub}

\* src/shortcuts.typ, where a facade of an earlier version may be left
StalePath == src_dir \o <<<<"s","h","o","r","t","c","u","t","s",".","t","y","p">>>>

\* LICENSE.txt and assets/logo.svg
LicensePath == project_dir \o <<seg_license>>

LogoPath == project_dir \o <<seg_assets, <<"l","o","g","o",".","s","v","g">>>>

\* the functions from a subset of WalkPaths to WalkTexts
Projects == UNION {[D -> WalkTexts] : D \in SUBSET WalkPaths}

\* the sequences that hold each element of S once
RECURSIVE Orders(_)
Orders(S) ==
    IF S = {} THEN {<<>>}
    ELSE UNION {{<<x>> \o o : o \in Orders(S \ {x})} : x \in S}

Range(f) == {f[i] : i \in DOMAIN f}

\* reversed(s)
Reverse(s) == [i \in 1..Len(s) |-> s[Len(s) + 1 - i]]

\* p and the directories above it
Ancestors(p) == {SubSeq(p, 1, k) : k \in 1..Len(p)}

(***************************************************************************)
(* The state.                                                              *)
(***************************************************************************)
VARIABLES
    files,                  \* the regular files: path -> text
    dirs,                   \* the directories
    pc,                     \* where the program stands
    run,                    \* the calls of generate_export so far
    order,                  \* the order scandir lists the entries known so
                            \* far in
    python,                 \* the versions of Python that behave as the
                            \* program has behaved so far
    todo,                   \* the subdirectories of the directory listed
                            \* last that the walk of glob has yet to list
                            \* for their matches
    walk_dir,               \* the directory whose matches are being yielded
    stack,                  \* the directories the walk has yet to list for
                            \* their subdirectories, the next one last
    pending,                \* the matches the loop of line 79 has yet to get
    source_file,            \* lines 79-132, set by the loop
    export_file,            \* lines 83 and 85
    export_dir,             \* line 87
    module_doc,             \* line 96
    public_items,           \* lines 98-107
    source_file_relative,   \* line 112
    error,                  \* the exception that ended the call, "" when none
    package_info,           \* the cache of get_package_info (line 67): empty,
                            \* or the one value it holds
    exported,               \* the progress lines of lines 113-116, with the
                            \* text each announces
    baseline,               \* the files as the current run found them
    before                  \* the files as the loop body found them when it
                            \* began with source_file

vars == <<files, dirs, pc, run, order, python, todo, walk_dir, stack, pending,
          source_file, export_file, export_dir, module_doc, public_items,
          source_file_relative, error, package_info, exported, baseline,
          before>>

locals == <<source_file, export_file, export_dir, module_doc, public_items,
            source_file_relative>>

walk == <<order, todo, walk_dir, stack, pending>>

\* the versions of Python that run the program, 3.14 for it and the later
\* ones: the type statement of line 11 and walk_up (line 112) came with 3.12
Versions == {"3.12", "3.13", "3.14"}

\* the walk of glob("**/*.typ") keeps the directories it has yet to list
\* for their subdirectories on a stack and goes on with the one on top.  The
\* subdirectories subs of a directory listed come on the stack reversed in
\* 3.12 (Path.walk), so the walk goes down into the first of them first, and
\* as they were listed from 3.13 on, so it goes down into the last first
glob_stacked(v, subs) == IF v = "3.12" THEN Reverse(subs) ELSE subs

\* whether Path has the method copy_into (line 179), which came with 3.14
has_copy_into(v) == v = "3.14"

\* the states of pc between two calls
TopLevel ==
    {"idle", "done", "failed", "readme", "readme_failed", "packed",
     "pack_failed", "create_failed"}

\* the states of pc at which the for loop asks glob for the next file
LoopHead == {"loop", "skipped", "wrote"}

\* a project directory that holds these files
InitFiles(impl, other) ==
    /\ files = impl @@ other
    /\ dirs = Ancestors(impl_dir)
                \cup UNION {Ancestors(Parent(p)) : p \in DOMAIN impl \cup DOMAIN other}

\* a project of one implementation file: any text of at most MaxLines lines,
\* or one of the longer files
InitParse ==
    \E p \in ParsePaths,
       t \in Texts(MaxLines) \cup {DocumentedText, CrlfText, MacText},
       stale \in BOOLEAN :
        InitFiles((p :> t),
                  (toml_file :> TomlText)
                      @@ (IF stale THEN (StalePath :> StaleText) ELSE <<>>))

\* a project of several small implementation files
InitWalk == \E impl \in Projects : InitFiles(impl, (toml_file :> TomlText))

\* a project whose implementation files lie in a tree two deep
InitTree == \E impl \in [TreePaths -> TreeTexts] : InitFiles(impl, (toml_file :> TomlText))

\* a project of one implementation file with one of several typst.toml or
\* none, with or without a README.orig.md, a LICENSE.txt and an assets
\* directory
InitMeta ==
    \E toml \in {<<>>, TomlText, TomlNoVersion, TomlNumber, TomlNoPackage, TomlBad,
                  TomlPlainEmpty, TomlPlainText, TomlPlainNumber},
       template \in BOOLEAN, license \in BOOLEAN, assets \in BOOLEAN :
        InitFiles((MathPath :> LnPub),
                  (IF toml = <<>> THEN <<>> ELSE (toml_file :> toml))
                      @@ (IF template THEN (readme_orig_file :> TemplateText) ELSE <<>>)
                      @@ (IF license THEN (LicensePath :> LicenseText) ELSE <<>>)
                      @@ (IF assets THEN (LogoPath :> LogoText) ELSE <<>>))

\* no project yet: the directory above project_dir and nothing in it
InitNone ==
    /\ files = <<>>
    /\ dirs = Ancestors(Parent(project_dir))

Init ==
    /\ (InitParse \/ InitWalk \/ InitTree \/ InitMeta \/ InitNone)
    /\ pc = "idle"
    /\ run = 0
    /\ order = <<>>
    /\ python = Versions
    /\ todo = <<>>
    /\ walk_dir = <<>>
    /\ stack = <<>>
    /\ pending = <<>>
    /\ source_file = <<>>
    /\ export_file = <<>>
    /\ export_dir = <<>>
    /\ module_doc = <<>>
    /\ public_items = <<>>
    /\ source_file_relative = <<>>
    /\ error = ""
    /\ package_info = <<>>
    /\ exported = <<>>
    /\ baseline = files
    /\ before = files

(***************************************************************************)
(* generate_export.                                                        *)
(***************************************************************************)
\* ensure_typst_project (lines 28-38): the exception it raises, "" when none
ensure_typst_project(fs_files, fs_dirs) ==
    IF ~exists(fs_files, fs_dirs, toml_file) \/ ~is_file(fs_files, fs_dirs, toml_file)
    THEN "FileNotFoundError"
    ELSE IF ~exists(fs_files, fs_dirs, impl_dir) \/ ~is_dir(fs_files, fs_dirs, impl_dir)
    THEN "FileNotFoundError"
    ELSE ""

\* lines 74-79: the call, with its local variables not yet bound, the
\* project check and the start of the walk of glob, which lists nothing
\* before the loop asks for the first file: src/_impl is to be listed for
\* its matches and then, as the one directory on the stack, for its
\* subdirectories
StartRun ==
    /\ pc \in TopLevel
    /\ run < MaxRuns
    /\ run' = run + 1
    /\ baseline' = files
    /\ exported' = <<>>
    /\ IF ensure_typst_project(files, dirs) = ""
       THEN /\ pc' = "loop"
            /\ error' = ""
            /\ todo' = <<impl_dir>>
            /\ stack' = <<impl_dir>>
       ELSE /\ pc' = "failed"
            /\ error' = ensure_typst_project(files, dirs)
            /\ todo' = <<>>
            /\ stack' = <<>>
    /\ walk_dir' = <<>>
    /\ pending' = <<>>
    /\ source_file' = <<>>
    /\ export_file' = <<>>
    /\ export_dir' = <<>>
    /\ module_doc' = <<>>
    /\ public_items' = <<>>
    /\ source_file_relative' = <<>>
    /\ before' = files
    /\ UNCHANGED <<files, dirs, order, python, package_info>>

\* the entries of directory d the walk of glob("**/*.typ") looks at
glob_entries(fs_files, fs_dirs, d) ==
    LET entries == scandir(fs_files, fs_dirs, d)
    IN  glob_matches(entries) \cup glob_subdirs(fs_dirs, entries)

\* the orders scandir may list the entries S in: the directory order of the
\* file system does not change, so entries listed before keep their order
Listings(S, known) ==
    {o \in Orders(S) :
        SelectSeq(o, LAMBDA p : p \in Range(known))
            = SelectSeq(known, LAMBDA p : p \in S)}

\* the known order after the entries o were listed
Relisted(known, o) == SelectSeq(known, LAMBDA p : p \notin Range(o)) \o o

\* directory d is listed for its matches, which the loop of line 79 gets one
\* by one: d becomes walk_dir
ListMatches(d, known) ==
    \E o \in Listings(glob_entries(files, dirs, d), known) :
        /\ walk_dir' = d
        /\ pending' = SelectSeq(o, LAMBDA p : p \in glob_matches(Range(o)))
        /\ order' = Relisted(known, o)

\* the walk of glob between two files (line 79).  The matches of walk_dir
\* are all yielded: the next of the subdirectories listed last is listed for
\* its matches; when none is left, the directory on top of the stack is
\* taken off and listed for its subdirectories.  No directory is taken off
\* before the matches of all of these were yielded, so they come on the
\* stack here, as the Python in use puts them, and that does not change
ListDir ==
    /\ pc \in LoopHead
    /\ pending = <<>>
    /\ todo # <<>> \/ stack # <<>>
    /\ IF todo # <<>>
       THEN /\ todo' = Tail(todo)
            /\ ListMatches(Head(todo), order)
            /\ UNCHANGED <<stack, python>>
       ELSE \E late \in Listings(glob_entries(files, dirs, stack[Len(stack)]),
                                 order) :
                LET subs == SelectSeq(late, LAMBDA p : p \in dirs)
                IN  \E v \in python :
                        /\ python' = {u \in python :
                                         glob_stacked(u, subs) = glob_stacked(v, subs)}
                        /\ stack' = SubSeq(stack, 1, Len(stack) - 1)
                                        \o glob_stacked(v, subs)
                        /\ todo' = subs
                        /\ walk_dir' = <<>>
                        /\ pending' = <<>>
                        /\ order' = Relisted(order, late)
    /\ UNCHANGED <<files, dirs, pc, run, locals, error, package_info, exported,
                   baseline, before>>

\* the first line of the file (line 81)
FirstLine(text) == ReadLine(SplitLines(text), 1)

\* lines 82-85: the path of the facade of file p whose first line is line
ExportFile(p, line) ==
    LET m == export_file_re(line)
    IN  IF m # 0
        THEN JoinPath(src_dir, ParsePath(Strip(From(line, m))))
        ELSE JoinPath(src_dir, relative_to(p, impl_dir))

\* lines 79-88: the loop gets an entry and opens it, its first line is read,
\* the facade path is resolved and the directory of the facade is made
NextFile ==
    /\ pc \in LoopHead
    /\ pending # <<>>
    /\ LET p == Head(pending)
           opened == open_r_error(files, dirs, p)
           f == ExportFile(p, FirstLine(files[p]))
           made == mkdir(files, dirs, Parent(f))
       IN  /\ source_file' = p
           /\ IF opened # ""
              THEN /\ pc' = "failed"
                   /\ error' = opened
                   /\ UNCHANGED <<dirs, export_file, export_dir>>
              ELSE /\ export_file' = f
                   /\ export_dir' = Parent(f)
                   /\ dirs' = made.dirs
                   /\ pc' = IF made.err # "" THEN "failed" ELSE "scan"
                   /\ error' = made.err
    /\ pending' = Tail(pending)
    /\ before' = files
    /\ UNCHANGED <<files, run, order, python, todo, walk_dir, stack, module_doc,
                   public_items, source_file_relative, package_info, exported,
                   baseline>>

\* lines 90-107: the doc loop and the declaration loop
ScanFile ==
    /\ pc = "scan"
    /\ LET lines == SplitLines(files[source_file])
       IN  /\ module_doc' = ModuleDoc(lines)
           /\ public_items' = PublicItems(lines)
    /\ pc' = "check"
    /\ UNCHANGED <<files, dirs, run, walk, python, source_file, export_file, export_dir,
                   source_file_relative, error, package_info, exported,
                   baseline, before>>

\* a check that never skips a file
nothing_public_never(items) == Len(items) < 0

\* line 109: whether the file has nothing to export
nothing_public(items) == Len(items) = 0

\* lines 109-110
SkipFile ==
    /\ pc = "check"
    /\ nothing_public(public_items)
    /\ pc' = "skipped"
    /\ UNCHANGED <<files, dirs, run, walk, python, locals, error, package_info,
                   exported, baseline, before>>

\* lines 112-132: the relative import path, the progress line, the facade
WriteFacade ==
    /\ pc = "check"
    /\ ~nothing_public(public_items)
    /\ LET rel == relative_to_walk_up(source_file, export_dir)
           shown == /\ relative_to_walk_up(source_file, project_dir).ok
                    /\ relative_to_walk_up(export_file, project_dir).ok
           opened == open_w_error(files, dirs, export_file)
           target == Lookup(files, dirs, export_file).path
           old == IF target \in DOMAIN files THEN files[target] ELSE <<>>
           text == write_facade(old, module_doc, rel.path, public_items)
       IN  IF ~rel.ok
           THEN /\ pc' = "failed"
                /\ error' = "ValueError"
                /\ UNCHANGED <<files, source_file_relative, exported>>
           ELSE IF ~shown
           THEN /\ pc' = "failed"
                /\ error' = "ValueError"
                /\ source_file_relative' = rel.path
                /\ UNCHANGED <<files, exported>>
           ELSE /\ source_file_relative' = rel.path
                /\ exported' = Append(exported,
                                      [source |-> source_file,
                                       target |-> export_file,
                                       text |-> text])
                /\ IF opened # ""
                   THEN /\ pc' = "failed"
                        /\ error' = opened
                        /\ files' = files
                   ELSE /\ pc' = "wrote"
                        /\ error' = error
                        /\ files' = (target :> text) @@ files
    /\ UNCHANGED <<dirs, run, walk, python, source_file, export_file, export_dir,
                   module_doc, public_items, package_info, baseline, before>>

\* the walk of glob has nothing left: the loop of line 79 ends and
\* generate_export returns
Finish ==
    /\ pc \in LoopHead
    /\ pending = <<>>
    /\ todo = <<>>
    /\ stack = <<>>
    /\ pc' = "done"
    /\ UNCHANGED <<files, dirs, run, walk, python, locals, error, package_info,
                   exported, baseline, before>>

(***************************************************************************)
(* generate_readme, copy_files and new_project.  The script calls          *)
(* generate_export, generate_readme and copy_files in this order (lines    *)
(* 184-186), and an exception ends it.                                     *)
(***************************************************************************)
\* lines 135-156
GenerateReadme ==
    /\ pc = "done"
    /\ LET checked == ensure_typst_project(files, dirs)
           got == get_package_info(package_info, files[toml_file])
           opened == IF open_r_error(files, dirs, readme_orig_file) # ""
                     THEN open_r_error(files, dirs, readme_orig_file)
                     ELSE open_w_error(files, dirs, readme_file)
           old == IF readme_file \in DOMAIN files THEN files[readme_file] ELSE <<>>
       IN  IF checked # ""
           THEN /\ pc' = "readme_failed"
                /\ error' = checked
                /\ UNCHANGED <<files, package_info>>
           ELSE IF got.err # ""
           THEN /\ pc' = "readme_failed"
                /\ error' = got.err
                /\ UNCHANGED <<files, package_info>>
           ELSE /\ package_info' = <<got.info>>
                /\ IF opened # ""
                   THEN /\ pc' = "readme_failed"
                        /\ error' = opened
                        /\ files' = files
                   ELSE /\ pc' = "readme"
                        /\ error' = error
                        /\ files' = (readme_file :>
                                        readme_text(old, files[readme_orig_file],
                                                    got.info)) @@ files
    /\ UNCHANGED <<dirs, run, walk, python, locals, exported, baseline, before>>

\* lines 177-179: the files of files_to_copy from the k-th on that exist are
\* copied into the directory at target
RECURSIVE copy_all(_, _, _, _)
copy_all(fs_files, fs_dirs, k, target) ==
    IF k > Len(files_to_copy) THEN [files |-> fs_files, dirs |-> fs_dirs]
    ELSE LET from == files_to_copy[k]
         IN  IF exists(fs_files, fs_dirs, from)
             THEN copy_all(copy_into_files(fs_files, from, target),
                           copy_into_dirs(fs_dirs, from, target), k + 1, target)
             ELSE copy_all(fs_files, fs_dirs, k + 1, target)

\* lines 159-179; the first file of files_to_copy that exists is copied by
\* a method that Path has from Python 3.14 on (AttributeError before)
CopyFiles ==
    /\ pc = "readme"
    /\ LET checked == ensure_typst_project(files, dirs)
           got == get_package_info(package_info, files[toml_file])
           version == SelectSeq(got.info, LAMBDA q : q.key = s_version)
           target_dir == JoinPath(JoinPath(project_dir, <<seg_packed>>),
                                  ParsePath(version[1].value))
           found == Lookup(files, dirs, target_dir)
           present == exists(files, dirs, target_dir)
           files1 == IF present THEN rmtree_files(files, found.path) ELSE files
           dirs1 == IF present THEN rmtree_dirs(dirs, found.path) ELSE dirs
           made == mkdir(files1, dirs1, target_dir)
           copied == copy_all(files1, made.dirs, 1,
                              Lookup(files1, made.dirs, target_dir).path)
           called == \E k \in DOMAIN files_to_copy :
                         exists(files1, made.dirs, files_to_copy[k])
           raise(e) == /\ pc' = "pack_failed"
                       /\ error' = e
                       /\ python' = python
       IN  IF checked # ""
           THEN raise(checked) /\ UNCHANGED <<files, dirs, package_info>>
           ELSE IF got.err # ""
           THEN raise(got.err) /\ UNCHANGED <<files, dirs, package_info>>
           ELSE /\ package_info' = <<got.info>>
                /\ IF version = <<>>
                   THEN raise("KeyError") /\ UNCHANGED <<files, dirs>>
                   ELSE IF ~version[1].str
                   THEN raise("TypeError") /\ UNCHANGED <<files, dirs>>
                   ELSE IF present /\ found.path \in DOMAIN files
                   THEN raise("NotADirectoryError") /\ UNCHANGED <<files, dirs>>
                   ELSE IF made.err # ""
                   THEN raise(made.err) /\ files' = files1 /\ dirs' = made.dirs
                   ELSE IF ~called
                   THEN /\ pc' = "packed"
                        /\ error' = error
                        /\ python' = python
                        /\ files' = files1
                        /\ dirs' = made.dirs
                   ELSE \E has \in {has_copy_into(v) : v \in python} :
                            /\ python' = {v \in python : has_copy_into(v) = has}
                            /\ files' = IF has THEN copied.files ELSE files1
                            /\ dirs' = IF has THEN copied.dirs ELSE made.dirs
                            /\ pc' = IF has THEN "packed" ELSE "pack_failed"
                            /\ error' = IF has THEN error ELSE "AttributeError"
    /\ UNCHANGED <<run, walk, locals, exported, baseline, before>>

\* the files of new_project_files from the k-th on, written
RECURSIVE write_all(_, _)
write_all(fs_files, k) ==
    IF k > Len(new_project_files) THEN fs_files
    ELSE write_all((new_project_files[k].path :> new_project_files[k].text)
                       @@ fs_files, k + 1)

\* lines 41-64, called with project_dir and no project_name.  toml.dump
\* (line 64) is handed a path where it takes an open file, so the call ends
\* there with an AttributeError and typst.toml is not written.
NewProject ==
    /\ pc = "idle"
    /\ pc' = "create_failed"
    /\ LET made == mkdir(files, dirs, project_dir)
           below == mkdir(files, made.dirs, impl_dir)
       IN  IF exists(files, dirs, project_dir)
           THEN /\ error' = "FileExistsError"
                /\ UNCHANGED <<files, dirs>>
           ELSE IF made.err # ""
           THEN /\ error' = made.err
                /\ dirs' = made.dirs
                /\ files' = files
           ELSE /\ error' = "AttributeError"
                /\ dirs' = below.dirs
                /\ files' = write_all(files, 1)
    /\ UNCHANGED <<run, walk, python, locals, package_info, exported, baseline, before>>

Next ==
    \/ StartRun
    \/ ListDir
    \/ NextFile
    \/ ScanFile
    \/ SkipFile
    \/ WriteFacade
    \/ Finish
    \/ GenerateReadme
    \/ CopyFiles
    \/ NewProject

Spec == Init /\ [][Next]_vars

(***************************************************************************)
(* What the claims speak of.                                               *)
(***************************************************************************)
\* the file being processed has been opened and resolved, and its text is
\* still the one the loop read
Resolved == pc \in {"scan", "check"}

\* the first line of the file being processed
CurrentFirstLine == FirstLine(files[source_file])

\* the loop body has begun with source_file and has not begun with another
InLoopBody ==
    \/ pc \in {"scan", "check", "skipped", "wrote"}
    \/ pc = "failed" /\ source_file # <<>>

\* a step of generate_export
ExportStep == pc' \in {"loop", "scan", "check", "skipped", "wrote", "done", "failed"}

\* a step of the loop body on the file source_file'
ProcessingStep == pc \in LoopHead \cup {"scan", "check"} /\ pc' # "done"

\* source_file' names a file in which the parser finds no declaration
ZeroItemsNext ==
    /\ source_file' \in DOMAIN files
    /\ PublicItems(SplitLines(files[source_file'])) = <<>>

\* the text of the mirrored place of implementation file p: the text of src,
\* a slash, and the text of p after that of src/_impl and its slash
MirroredText(p) ==
    as_posix(src_dir) \o <<"/">> \o From(as_posix(p), Len(as_posix(impl_dir)) + 2)

\* the redirect grammar: "//", optional whitespace, "->", one or more
\* whitespace characters, then a path
ArrowAt(line) ==
    {a \in 3..Len(line) :
        /\ StartsWith(line, <<"/","/">>)
        /\ \A k \in 3..(a - 1) : line[k] \in WS
        /\ LitAt(line, a, <<"-",">">>)}

AfterArrow(line) == From(line, (CHOOSE a \in ArrowAt(line) : TRUE) + 2)

\* the arrow and at least one whitespace character after it
ArrowShape(line) ==
    /\ ArrowAt(line) # {}
    /\ AfterArrow(line) # <<>>
    /\ AfterArrow(line)[1] \in WS

\* a redirect directive: the arrow shape with a path after it
IsRedirectDirective(line) ==
    /\ ArrowShape(line)
    /\ \E k \in DOMAIN AfterArrow(line) : AfterArrow(line)[k] \notin WS

RedirectDestination(line) == Strip(AfterArrow(line))

\* a directive whose destination is relative to the public source root
IsRelativeRedirect(line) ==
    /\ IsRedirectDirective(line)
    /\ RedirectDestination(line)[1] # "/"

\* the file the operating system finds at path p
FileAt(p) == Lookup(files, dirs, p).path

\* whether text t occurs in s
Occurs(t, s) == \E i \in 1..(Len(s) + 1) : LitAt(s, i, t)

(***************************************************************************)
(* C1: a first line that is not a redirect takes part in the doc and       *)
(* declaration scan: a "///" line opens the module doc, a declaration      *)
(* line gives the first public item.                                       *)
(***************************************************************************)
C1_FirstLineScanned ==
    (pc = "check" /\ export_file_re(CurrentFirstLine) = 0) =>
        /\ StartsWith(CurrentFirstLine, s_doc)
              => StartsWith(module_doc, RStrip(CurrentFirstLine))
        /\ public_item_re(CurrentFirstLine).matched
              => /\ public_items # <<>>
                 /\ public_items[1] = public_item_re(CurrentFirstLine).item

(***************************************************************************)
(* C2: no step of generate_export creates, overwrites or modifies a file   *)
(* or a directory below src/_impl.                                         *)
(***************************************************************************)
C2_ImplReadOnly ==
    [][ExportStep =>
          /\ \A p \in DOMAIN files' :
                IsPrefix(impl_dir, p) => (p \in DOMAIN files /\ files'[p] = files[p])
          /\ \A d \in dirs' : IsPrefix(impl_dir, d) => d \in dirs]_vars

(***************************************************************************)
(* C3: a second run that ends well leaves the files exactly as it found    *)
(* them, which is as the run before left them.                             *)
(***************************************************************************)
C3_Idempotent == (run >= 2 /\ pc = "done") => files = baseline

(***************************************************************************)
(* C4: processing a file in which the parser finds no declaration creates  *)
(* no file and changes none.                                               *)
(***************************************************************************)
C4_NoFacadeForZeroItems ==
    (/\ InLoopBody
     /\ source_file \in DOMAIN before
     /\ PublicItems(SplitLines(before[source_file])) = <<>>)
        => files = before

\* a file without declarations has been skipped where a facade already lay
C4_Witness ==
    /\ pc = "skipped"
    /\ public_items = <<>>
    /\ Len(SplitLines(files[source_file])) >= 2
    /\ FileAt(export_file) \in DOMAIN files

(***************************************************************************)
(* C5: the facade written is exactly the trimmed doc block and a blank     *)
(* line (when there is a doc block), the import line, one line per parsed  *)
(* item in order, the closing line and a blank line, and the disclaimer;   *)
(* nothing of the file's earlier content is left.                          *)
(***************************************************************************)
ItemLine(item) ==
    IF item.alias = None
    THEN <<" "," ">> \o item.name \o <<",","\n">>
    ELSE <<" "," ">> \o item.name \o <<" ","a","s"," ">> \o item.alias \o <<",","\n">>

FacadeLayout(doc, rel, items) ==
    Concat(<<IF doc = <<>> THEN <<>> ELSE doc \o <<"\n","\n">>,
             <<"#","i","m","p","o","r","t"," ","\"">> \o as_posix(rel)
                 \o <<"\"",":"," ","(","\n">>,
             Concat([i \in 1..Len(items) |-> ItemLine(items[i])]),
             <<")","\n","\n">>,
             s_disclaimer>>)

C5_FacadeLayout ==
    pc = "wrote" =>
        /\ module_doc = Strip(module_doc)
        /\ public_items # <<>>
        /\ FileAt(export_file) \in DOMAIN files
        /\ files[FileAt(export_file)]
              = FacadeLayout(module_doc, source_file_relative, public_items)

\* a facade with a doc block and two items, the second aliased, has
\* replaced the text a facade held before
C5_Witness ==
    /\ pc = "wrote"
    /\ module_doc # <<>>
    /\ Len(public_items) = 2
    /\ public_items[1].alias = None
    /\ public_items[2].alias # None
    /\ export_file \in DOMAIN baseline
    /\ baseline[export_file] = StaleText

(***************************************************************************)
(* C6: when the first line is a redirect directive of destination p, the   *)
(* facade path is src/p wherever the file lies below src/_impl; when it is *)
(* no redirect directive, the facade path mirrors the file's place below   *)
(* src/_impl; the facade is written at the facade path and no other file   *)
(* is touched, the one at the mirrored place included.                     *)
(***************************************************************************)
C6_RedirectPrecedence ==
    /\ Resolved =>
          /\ IsRedirectDirective(CurrentFirstLine)
                => as_posix(export_file)
                       = as_posix(src_dir) \o <<"/">>
                             \o RedirectDestination(CurrentFirstLine)
          /\ ~IsRedirectDirective(CurrentFirstLine)
                => as_posix(export_file) = MirroredText(source_file)
    /\ pc = "wrote" =>
          /\ exported[Len(exported)].target = export_file
          /\ FileAt(export_file) \in DOMAIN files
          /\ DOMAIN files = DOMAIN before \cup {FileAt(export_file)}
          /\ \A p \in DOMAIN before : p # FileAt(export_file) => files[p] = before[p]

\* the precedence alone, for the destinations that are relative to the
\* public source root and the first lines without the arrow
PrecedenceWhenRelative ==
    Resolved =>
        /\ IsRelativeRedirect(CurrentFirstLine)
              => as_posix(export_file)
                     = as_posix(src_dir) \o <<"/">>
                           \o RedirectDestination(CurrentFirstLine)
        /\ ~ArrowShape(CurrentFirstLine)
              => as_posix(export_file) = MirroredText(source_file)

(***************************************************************************)
(* C7: computing the relative import path never fails, and resolving it    *)
(* from the directory of the facade gives the implementation file.         *)
(***************************************************************************)
C7_RelativeImportRoundTrip ==
    /\ pc = "failed" => error # "ValueError"
    /\ pc = "wrote" =>
          FileAt(JoinPath(export_dir, source_file_relative)) = source_file

\* the round trip alone, for the facades that are written
RoundTripWhenWritten ==
    pc = "wrote" =>
        /\ FileAt(JoinPath(export_dir, source_file_relative)) = source_file
        /\ Occurs(<<"\"">> \o as_posix(source_file_relative) \o <<"\"">>,
                  files[FileAt(export_file)])

(***************************************************************************)
(* C8: a first line that is not a redirect directive (the arrow with no    *)
(* path after it included) records no redirect: the facade path is the     *)
(* mirrored one and writing the facade does not fail for a directory in    *)
(* its place.                                                              *)
(***************************************************************************)
C8_PermissiveRedirect ==
    /\ (Resolved /\ ~IsRedirectDirective(CurrentFirstLine))
          => as_posix(export_file) = MirroredText(source_file)
    /\ (pc = "failed" /\ error = "IsADirectoryError" /\ source_file \in DOMAIN files)
          => IsRedirectDirective(CurrentFirstLine)

(***************************************************************************)
(* C9: when a run has ended well, the file at the facade path of every     *)
(* file exported in the run is the facade generated from that file; stated *)
(* for the facades that lie outside src/_impl.                             *)
(***************************************************************************)
C9_FacadesSurvive ==
    pc = "done" =>
        \A i \in DOMAIN exported :
            ~IsPrefix(impl_dir, exported[i].target) =>
                /\ FileAt(exported[i].target) \in DOMAIN files
                /\ files[FileAt(exported[i].target)] = exported[i].text

(***************************************************************************)
(* C10: processing a file without public declarations leaves the file      *)
(* system as it was: no file and no directory is made.                     *)
(***************************************************************************)
C10_ZeroItemsNoSideEffect ==
    [][(ProcessingStep /\ ZeroItemsNext) => (files' = files /\ dirs' = dirs)]_vars

====
